---- MODULE Spec2Model ----
(***************************************************************************)
(* Model of hrmpython's HRM class (src/src/hrmpython/main.py).             *)
(*                                                                         *)
(* An HRM object holds the table given at construction (df), the current   *)
(* temperature axis (temp), the current sample series (data) and the       *)
(* stored cluster assignment (cluster).  Every public method is one        *)
(* action; `last` records the call just made: its name, its arguments, the *)
(* exception it raised ("none" when it returned) and the value returned.   *)
(*                                                                         *)
(* Numbers.  Temperatures and raw intensities are integers.  The values    *)
(* pandas computes from them are modelled as exact fractions in lowest     *)
(* terms, [nan |-> FALSE, n |-> numerator, d |-> denominator > 0], and the *)
(* floating-point not-a-number as NaN; float rounding is not modelled.     *)
(* A DataFrame is a sequence of columns, each a sequence of row values;    *)
(* column c carries the name SampleNames[c].                               *)
(***************************************************************************)
EXTENDS Integers, Sequences, FiniteSets, TLC

\* grew is a history variable: whether the call just made was a subset() that left
\* more rows than the object had before it.
VARIABLES df, temp, data, cluster, last, grew

vars == <<df, temp, data, cluster, last, grew>>

(* ------------------------------ bounds --------------------------------- *)

\* Largest number of rows of a table whose temperature axis is chosen freely.
MaxRows == 3
\* Cluster counts passed to clustering() are drawn from 0..MaxK.
MaxK == 3

\* Column names of the sample columns, in column order.
SampleNames == <<"A", "B">>
\* A name that is no column of the table (also tried as sub()'s reference).
OtherNames == {"Z"}

\* Raw intensities of a freely chosen sample column.
IntensityVals == {0, 1, 2}
\* Temperatures of a freely chosen axis: repeated and unsorted values included.
TempVals == {1, 2}
\* The ascending temperature axis of the tables whose curve is chosen freely
\* (and its prefixes, for shorter tables).
CurveAxis == <<1, 2, 3>>
\* Bounds passed to subset(): below, inside and above every temperature.
RangeVals == 0..4
\* Strategy names passed to clustering(); "spectral" is not a supported one.
MethodNames == {"kmeans", "agglomerative", "dbscan", "spectral"}

(* ------------------------- sequences and numbers ------------------------ *)

SeqsOfLen(S, n) == [1..n -> S]

Range(s) == {s[i] : i \in DOMAIN s}

MinOf(S) == CHOOSE x \in S : \A y \in S : x <= y
MaxOf(S) == CHOOSE x \in S : \A y \in S : x >= y

Abs(x) == IF x < 0 THEN -x ELSE x

RECURSIVE GCD(_, _)
GCD(a, b) == IF b = 0 THEN a ELSE GCD(b, a % b)

NaN == [nan |-> TRUE, n |-> 0, d |-> 1]

\* The fraction a / b in lowest terms; 0 / 0 is NaN, as in float division.
\* (b = 0 with a # 0 cannot happen here: b = max - min = 0 forces a = x - min = 0.)
Frac(a, b) ==
    IF b = 0 THEN NaN
    ELSE LET g == GCD(Abs(a), Abs(b))
             s == IF b < 0 THEN -1 ELSE 1
         IN  [nan |-> FALSE, n |-> (s * a) \div g, d |-> (s * b) \div g]

Num(x) == [nan |-> FALSE, n |-> x, d |-> 1]

IsNaN(v) == v.nan

FNeg(v) == IF v.nan THEN NaN ELSE [nan |-> FALSE, n |-> -v.n, d |-> v.d]

FSub(v, w) ==
    IF v.nan \/ w.nan THEN NaN ELSE Frac(v.n * w.d - w.n * v.d, v.d * w.d)

\* v < w and v <= w on defined values.
FLt(v, w) == v.n * w.d < w.n * v.d
FLe(v, w) == v.n * w.d <= w.n * v.d

(* ------------------------------ the table ------------------------------ *)

\* Number of sample columns of a table; names of its columns.
NumSamples(d) == Len(d)
ColumnNames(d) == {SampleNames[c] : c \in 1..NumSamples(d)}

\* data.T: one feature vector per sample (a DataFrame is kept column-wise here,
\* so the rows of the transpose are the columns themselves).
RowMatrix(d) == [i \in 1..Len(d[1]) |-> [c \in DOMAIN d |-> d[c][i]]]
SampleMatrix(d) == d

IsConstant(col) == col # <<>> /\ \A i \in DOMAIN col : col[i] = col[1]

(* ------------------------------ subset ---------------------------------- *)

\* The boolean row mask of line 47 for one temperature.
RowMaskInclusive(t, lo, hi) == t >= lo /\ t <= hi
RowMask(t, lo, hi) == t > lo /\ t < hi

\* The positions of axis whose temperature passes the mask, in ascending order.
RECURSIVE KeptRows(_, _, _)
KeptRows(axis, lo, hi) ==
    IF axis = <<>> THEN <<>>
    ELSE LET n    == Len(axis)
             rest == KeptRows(SubSeq(axis, 1, n - 1), lo, hi)
         IN  IF RowMask(axis[n], lo, hi) THEN Append(rest, n) ELSE rest

\* Boolean indexing: the rows of a column at the kept positions.
Take(col, kept) == [k \in 1..Len(kept) |-> col[kept[k]]]

\* The table subset() filters: self.df, the table given at construction.
SubsetSourceCurrent == [temp |-> temp, data |-> data]
SubsetSource == df

\* self.df after subset(): the filtered frame is bound to a local only.
TableAfterSubsetFiltered(d, kept) ==
    [temp |-> Take(d.temp, kept),
     data |-> [c \in DOMAIN d.data |-> Take(d.data[c], kept)]]
TableAfterSubset(d, kept) == d

(* ------------------------------ normal ---------------------------------- *)

\* Min-max scaling of one column over the rows it has: (x - min) / (max - min) * 100.
\* An empty column stays empty.
NormColByMax(col) ==
    IF col = <<>> THEN <<>>
    ELSE LET mx == MaxOf(Range(col))
         IN  [i \in DOMAIN col |-> Frac(col[i] * 100, mx)]
NormColZeroOnConstant(col) ==
    IF col = <<>> THEN <<>>
    ELSE LET mn == MinOf(Range(col))
             mx == MaxOf(Range(col))
         IN  [i \in DOMAIN col |->
                IF mx = mn THEN Num(0) ELSE Frac((col[i] - mn) * 100, mx - mn)]
NormCol(col) ==
    IF col = <<>> THEN <<>>
    ELSE LET mn == MinOf(Range(col))
             mx == MaxOf(Range(col))
         IN  [i \in DOMAIN col |-> Frac((col[i] - mn) * 100, mx - mn)]

Normal(d) == [c \in DOMAIN d |-> NormCol(d[c])]

(* ------------------------------- diff ----------------------------------- *)

NegCol(col) == [i \in DOMAIN col |-> FNeg(col[i])]

\* Series.diff(): element i minus element i - 1; the first element is NaN.
DiffCol(col) ==
    [i \in DOMAIN col |-> IF i = 1 THEN NaN ELSE FSub(col[i], col[i - 1])]

Diff(d) == [c \in DOMAIN d |-> DiffCol(NegCol(Normal(d)[c]))]

(* -------------------------------- tm ------------------------------------ *)

\* The positions of a column holding a defined value.
Defined(col) == {i \in DOMAIN col : ~IsNaN(col[i])}

\* idxmax() of one column indexed by axis, NaN skipped: the label of the first
\* row holding the maximum; NaN when no value is defined.
IdxMax(axis, col) ==
    IF Defined(col) = {} THEN NaN
    ELSE LET best == {i \in Defined(col) : \A j \in Defined(col) : FLe(col[j], col[i])}
         IN  Num(axis[MinOf(best)])

\* tm(): idxmax over an axis without rows raises ValueError (argmax of an empty
\* sequence).
Tm(axis, d) ==
    IF axis = <<>>
    THEN [err |-> "ValueError", out |-> <<>>]
    ELSE [err |-> "none",
          out |-> [c \in DOMAIN d |->
                     [Sample |-> SampleNames[c],
                      Temperature |-> IdxMax(axis, Diff(d)[c])]]]

(* -------------------------------- sub ----------------------------------- *)

ColumnOf(name) == CHOOSE c \in DOMAIN SampleNames : SampleNames[c] = name

\* sub(ref): data[ref] raises KeyError for a name that is no column.
Sub(d, ref) ==
    IF ref \notin ColumnNames(d)
    THEN [err |-> "KeyError", out |-> <<>>]
    ELSE LET N == Normal(d)
             r == ColumnOf(ref)
         IN  [err |-> "none",
              out |-> [c \in DOMAIN N |->
                         [i \in DOMAIN N[c] |-> FSub(N[c][i], N[r][i])]]]

(* ----------------------------- clustering ------------------------------ *)

\* What fit_predict does with a matrix X: raise, or return one label per row of X.
Raise == [err |-> "ValueError", labels |-> <<>>]
Fitted(L) == [err |-> "none", labels |-> L]

\* scikit-learn's input validation: a matrix needs at least one feature and no NaN.
InvalidInput(X) ==
    \/ \E s \in DOMAIN X : X[s] = <<>>
    \/ \E s \in DOMAIN X : \E i \in DOMAIN X[s] : IsNaN(X[s][i])

\* KMeans(n_clusters=n).fit_predict(X): needs 1 <= n <= number of rows of X; which
\* row gets which of the labels 0..n-1 depends on the random initialisation.
KMeansFit(X, n) ==
    IF InvalidInput(X) \/ n < 1 \/ n > Len(X) THEN {Raise}
    ELSE {Fitted(L) : L \in [1..Len(X) -> 0..(n - 1)]}

\* AgglomerativeClustering(n_clusters=n).fit_predict(X): needs two rows at least and
\* 1 <= n <= number of rows; cuts the tree into exactly n clusters.
AgglomerativeFit(X, n) ==
    IF InvalidInput(X) \/ Len(X) < 2 \/ n < 1 \/ n > Len(X) THEN {Raise}
    ELSE {Fitted(L) : L \in {M \in [1..Len(X) -> 0..(n - 1)] :
                               \A k \in 0..(n - 1) : \E s \in DOMAIN M : M[s] = k}}

\* DBSCAN(eps=0.2).fit_predict(X), min_samples at its default of 5: with fewer than
\* five rows no row is a core point and every row is noise (-1); otherwise each row
\* is noise or in one of the clusters found.
DBSCANFit(X) ==
    IF InvalidInput(X) THEN {Raise}
    ELSE IF Len(X) < 5 THEN {Fitted([s \in 1..Len(X) |-> -1])}
    ELSE {Fitted(L) : L \in [1..Len(X) -> (-1)..(Len(X) - 1)]}

\* self.cluster after the call: assigned only once fit_predict has returned.
StoreLabelsClearing(old, fit) == IF fit.err = "none" THEN fit.labels ELSE <<>>
StoreLabels(old, fit) == IF fit.err = "none" THEN fit.labels ELSE old

\* clustering(method, n): the outcomes [err, cluster] of the if / elif chain; a
\* method that matches no branch falls through and the call returns.
ClusteringResults(method, n, d, old) ==
    LET X == SampleMatrix(Normal(d))
        Done(fits) == {[err |-> f.err, cluster |-> StoreLabels(old, f)] : f \in fits}
    IN  IF method = "kmeans" THEN Done(KMeansFit(X, n))
        ELSE IF method = "agglomerative" THEN Done(AgglomerativeFit(X, n))
        ELSE IF method = "dbscan" THEN Done(DBSCANFit(X))
        ELSE {[err |-> "none", cluster |-> old]}

(* ------------------------------ reshape --------------------------------- *)

\* The label reshape() writes on the records of column c: self.cluster[c].
ClusterLabelFirst(labels, c) == labels[1]
ClusterLabel(labels, c) == labels[c]

\* The melted block of column c: one record per row, in row order.
Melt(axis, curve, labels, c) ==
    [i \in 1..Len(axis) |->
        [Temperature |-> axis[i], Sample |-> SampleNames[c],
         Intensity |-> curve[c][i], Cluster |-> ClusterLabel(labels, c)]]

RECURSIVE ConcatBlocks(_, _, _, _)
ConcatBlocks(axis, curve, labels, c) ==
    IF c = 0 THEN <<>>
    ELSE ConcatBlocks(axis, curve, labels, c - 1) \o Melt(axis, curve, labels, c)

\* reshape(curve), curve with the rows of axis: self.cluster[i] raises IndexError
\* when the assignment is shorter than the number of columns.
Reshape(axis, curve, labels) ==
    IF Len(labels) < Len(curve)
    THEN [err |-> "IndexError", out |-> <<>>]
    ELSE [err |-> "none", out |-> ConcatBlocks(axis, curve, labels, Len(curve))]

\* The curve data handed to reshape(): computed from the object's current state.
CurveKinds == {"normal", "diff", "sub"}
Curve(kind, d) ==
    IF kind = "normal" THEN Normal(d)
    ELSE IF kind = "diff" THEN Diff(d)
    ELSE Sub(d, SampleNames[1]).out

(* ------------------------------ the object ------------------------------ *)

Call(op, arg, err, out) == [op |-> op, arg |-> arg, err |-> err, out |-> out]

\* The tables given to the constructor: a temperature column and one column per
\* sample name, all of the same length.  Two families are enumerated:
\*   - any axis over TempVals, with a falling curve A and a one-step curve B;
\*   - a prefix of the ascending axis CurveAxis, with any curve A over
\*     IntensityVals and the one-step curve B.
Falling(r) == [i \in 1..r |-> r - i]
Step(r) == [i \in 1..r |-> IF i = 1 THEN 1 ELSE 0]

AxisTables ==
    UNION {{[temp |-> axis, data |-> <<Falling(r), Step(r)>>]
            : axis \in SeqsOfLen(TempVals, r)} : r \in 1..MaxRows}

CurveTables ==
    UNION {{[temp |-> SubSeq(CurveAxis, 1, r), data |-> <<a, Step(r)>>]
            : a \in SeqsOfLen(IntensityVals, r)} : r \in 1..Len(CurveAxis)}

Tables == AxisTables \cup CurveTables

\* __init__: the object exists only if the eager clustering('kmeans', 2) returned.
Init ==
    \E t \in Tables : \E res \in ClusteringResults("kmeans", 2, t.data, <<>>) :
        /\ res.err = "none"
        /\ df = t
        /\ temp = t.temp
        /\ data = t.data
        /\ cluster = res.cluster
        /\ last = Call("init", <<>>, "none", <<>>)
        /\ grew = FALSE

SubsetCall(lo, hi) ==
    LET src  == SubsetSource
        kept == KeptRows(src.temp, lo, hi)
    IN  /\ temp' = Take(src.temp, kept)
        /\ data' = [c \in DOMAIN src.data |-> Take(src.data[c], kept)]
        /\ df' = TableAfterSubset(df, kept)
        /\ last' = Call("subset", <<lo, hi>>, "none", <<>>)
        /\ grew' = (Len(kept) > Len(temp))
        /\ UNCHANGED cluster

SubsetOp == \E lo \in RangeVals : \E hi \in RangeVals : SubsetCall(lo, hi)

NormalOp ==
    /\ last' = Call("normal", <<>>, "none", Normal(data))
    /\ grew' = FALSE
    /\ UNCHANGED <<df, temp, data, cluster>>

DiffOp ==
    /\ last' = Call("diff", <<>>, "none", Diff(data))
    /\ grew' = FALSE
    /\ UNCHANGED <<df, temp, data, cluster>>

TmOp ==
    /\ last' = Call("tm", <<>>, Tm(temp, data).err, Tm(temp, data).out)
    /\ grew' = FALSE
    /\ UNCHANGED <<df, temp, data, cluster>>

SubOp ==
    \E ref \in ColumnNames(data) \cup OtherNames :
        /\ last' = Call("sub", <<ref>>, Sub(data, ref).err, Sub(data, ref).out)
        /\ grew' = FALSE
        /\ UNCHANGED <<df, temp, data, cluster>>

ClusteringOp ==
    \E method \in MethodNames : \E n \in 0..MaxK :
        \E res \in ClusteringResults(method, n, data, cluster) :
            /\ cluster' = res.cluster
            /\ last' = Call("clustering", <<method, n>>, res.err, <<>>)
            /\ grew' = FALSE
            /\ UNCHANGED <<df, temp, data>>

ReshapeOp ==
    \E kind \in CurveKinds :
        LET r == Reshape(temp, Curve(kind, data), cluster)
        IN  /\ last' = Call("reshape", <<kind>>, r.err, r.out)
            /\ grew' = FALSE
        /\ UNCHANGED <<df, temp, data, cluster>>

Next ==
    \/ SubsetOp
    \/ NormalOp
    \/ DiffOp
    \/ TmOp
    \/ SubOp
    \/ ClusteringOp
    \/ ReshapeOp

Spec == Init /\ [][Next]_vars

(* ------------------------------- claims --------------------------------- *)

SupportedMethods == {"kmeans", "agglomerative", "dbscan"}

\* The row positions of the constructed table whose temperature lies strictly
\* between lo and hi, and the k-th of them in ascending order.
StrictRows(lo, hi) == {i \in DOMAIN df.temp : lo < df.temp[i] /\ df.temp[i] < hi}
KthRow(K, k) == CHOOSE i \in K : Cardinality({j \in K : j < i}) = k - 1

\* axis and series are exactly the rows of the constructed table strictly inside
\* (lo, hi), in their original order, every series aligned with the axis.
IsStrictFilter(axis, series, lo, hi) ==
    LET K == StrictRows(lo, hi)
    IN  /\ Len(axis) = Cardinality(K)
        /\ \A k \in 1..Len(axis) : axis[k] = df.temp[KthRow(K, k)]
        /\ DOMAIN series = DOMAIN df.data
        /\ \A c \in DOMAIN series :
              /\ Len(series[c]) = Len(axis)
              /\ \A k \in 1..Len(axis) : series[c][k] = df.data[c][KthRow(K, k)]

\* C1: after subset((low, high)) the temperature axis holds exactly the rows with
\* low < t < high (rows with t = low or t = high dropped), in their original order,
\* every sample series is filtered to the same rows and has the length of the
\* axis, and the call raised nothing, an empty result included.
C1_SubsetStrictAligned ==
    last.op = "subset" =>
        /\ last.err = "none"
        /\ IsStrictFilter(temp, data, last.arg[1], last.arg[2])

\* C1 witness: a subset that kept some rows and dropped a row whose temperature
\* equals the low bound and a row whose temperature equals the high bound.
C1_Witness ==
    /\ last.op = "subset"
    /\ Len(temp) > 0
    /\ \E i \in DOMAIN df.temp : df.temp[i] = last.arg[1]
    /\ \E i \in DOMAIN df.temp : df.temp[i] = last.arg[2]

\* C1 witness of the empty result: a subset that left no row, without an error.
C1_EmptyWitness == last.op = "subset" /\ temp = <<>> /\ last.err = "none"

\* C2 (as claimed): a clustering call whose strategy name is not one of 'kmeans',
\* 'agglomerative', 'dbscan' fails with an error; it never returns normally.
C2_UnknownStrategyFails ==
    (last.op = "clustering" /\ last.arg[1] \notin SupportedMethods)
        => last.err # "none"

\* C3 (as claimed): subset leaves the object it is called on unmodified: the
\* temperature axis and the sample series read by normal(), diff(), tm(), sub()
\* and reshape() are the same after the call as before it.
C3_SubsetLeavesReceiver ==
    [][last'.op = "subset" => (temp' = temp /\ data' = data)]_vars

\* C3 (amended): subset returns nothing and overwrites the receiving object's
\* current temperature axis and sample series with the filtered rows of the
\* constructed table; what it leaves unmodified is the constructed table and the
\* stored cluster assignment.
C3_SubsetUpdatesInPlace ==
    [][last'.op = "subset" =>
        /\ df' = df
        /\ cluster' = cluster
        /\ last'.out = <<>>
        /\ IsStrictFilter(temp', data', last'.arg[1], last'.arg[2])]_vars

\* C3 witness: a subset after which the object's axis and series are no longer
\* those of the constructed table, which itself still has all its rows.
C3_Witness ==
    /\ last.op = "subset"
    /\ temp # df.temp
    /\ data # df.data
    /\ Len(df.temp) > Len(temp)

\* C4: the stored cluster assignment changes only in a clustering call that
\* succeeds; subset, normal, diff, tm, sub and reshape leave it unchanged; a call
\* that fails leaves the assignment, the axis and the series as they were; sub with
\* a name that is no sample fails, and so does k-means or agglomerative clustering
\* with k < 1 or k > sample count.
C4_Step ==
    /\ (cluster' # cluster) => (last'.op = "clustering" /\ last'.err = "none")
    /\ (last'.op \in {"subset", "normal", "diff", "tm", "sub", "reshape"})
          => cluster' = cluster
    /\ (last'.err # "none")
          => (cluster' = cluster /\ temp' = temp /\ data' = data /\ df' = df)
    /\ (last'.op = "sub" /\ last'.arg[1] \notin ColumnNames(data))
          => last'.err # "none"
    /\ (/\ last'.op = "clustering"
        /\ last'.arg[1] \in {"kmeans", "agglomerative"}
        /\ (last'.arg[2] < 1 \/ last'.arg[2] > NumSamples(data)))
          => last'.err # "none"
C4_ClusterFrame == [][C4_Step]_vars

\* C4 witness: a clustering call on valid data that failed only because k exceeds
\* the sample count, with an assignment stored from an earlier call.
C4_Witness ==
    /\ last.op = "clustering"
    /\ last.err # "none"
    /\ last.arg[2] > NumSamples(data)
    /\ ~InvalidInput(SampleMatrix(Normal(data)))
    /\ cluster # <<>>

\* C5: in every state after a successful construction the stored assignment has
\* exactly one label per sample column, so reshape finds a label for every sample
\* position.
C5_OneLabelPerSample ==
    /\ Len(cluster) = NumSamples(data)
    /\ NumSamples(data) = NumSamples(df.data)
    /\ (last.op = "reshape" => last.err = "none")

\* C5 witness: a successful re-clustering with another strategy after a subset that
\* dropped rows.
C5_Witness ==
    /\ last.op = "clustering"
    /\ last.err = "none"
    /\ last.arg[1] = "agglomerative"
    /\ Len(temp) < Len(df.temp)

\* C6 (as claimed): tm() returns exactly one (sample, temperature) record per sample
\* in column order; for a sample whose difference curve has a defined value the
\* temperature is on the current axis and is the earliest one at which that curve
\* attains its maximum.
C6_TmOnePerSample ==
    last.op = "tm" =>
        /\ last.err = "none"
        /\ Len(last.out) = NumSamples(data)
        /\ \A c \in 1..NumSamples(data) :
              LET d == Diff(data)[c]
              IN  /\ c \in DOMAIN last.out
                  /\ last.out[c].Sample = SampleNames[c]
                  /\ Defined(d) # {} =>
                        \E i \in Defined(d) :
                            /\ last.out[c].Temperature = Num(temp[i])
                            /\ \A j \in Defined(d) : FLe(d[j], d[i])
                            /\ \A j \in Defined(d) : j < i => FLt(d[j], d[i])

\* C6 restricted to a non-empty axis: the same statement for the calls made while
\* the current axis has a row.  (Supporting fact; the claim itself is C6 above.)
C6_TmOnNonEmptyAxis == (last.op = "tm" /\ temp # <<>>) => C6_TmOnePerSample

\* C7: a constant sample series is no error: normal() and diff() give NaN at every
\* position of that sample, tm() gives NaN as its temperature, none of the calls
\* raises, and the other samples' results are what they are without it.
C7_ConstantIsNaN ==
    \A c \in 1..NumSamples(data) :
        IsConstant(data[c]) =>
            /\ last.op \in {"normal", "diff", "tm"} => last.err = "none"
            /\ last.op \in {"normal", "diff"} =>
                  /\ Len(last.out[c]) = Len(temp)
                  /\ \A i \in DOMAIN last.out[c] : IsNaN(last.out[c][i])
            /\ last.op = "tm" => IsNaN(last.out[c].Temperature)
            /\ \A o \in 1..NumSamples(data) :
                  ~IsConstant(data[o]) =>
                      /\ last.op = "normal" =>
                            \A i \in DOMAIN last.out[o] : ~IsNaN(last.out[o][i])
                      /\ last.op = "diff" =>
                            \A i \in DOMAIN last.out[o] :
                                IsNaN(last.out[o][i]) <=> (i = 1)
                      /\ last.op = "tm" =>
                            /\ ~IsNaN(last.out[o].Temperature)
                            /\ last.out[o].Temperature =
                                  IdxMax(temp, Diff(<<data[o]>>)[1])

\* C7 witness: tm() returned while one sample is constant over the current rows
\* and another is not.
C7_Witness ==
    /\ last.op = "tm"
    /\ \E c \in 1..NumSamples(data) : IsConstant(data[c])
    /\ \E o \in 1..NumSamples(data) : ~IsConstant(data[o])

\* C8: normal() scales each sample by the minimum and maximum of that sample over
\* the current rows: for a sample not constant over them the output has minimum
\* exactly 0, maximum exactly 100, and each value is (x - min) / (max - min) * 100.
C8_NormalScalesCurrentRows ==
    last.op = "normal" =>
        \A c \in 1..NumSamples(data) :
            (data[c] # <<>> /\ ~IsConstant(data[c])) =>
                LET mn == MinOf(Range(data[c]))
                    mx == MaxOf(Range(data[c]))
                    o  == last.out[c]
                IN  /\ Len(o) = Len(data[c])
                    /\ \A i \in DOMAIN o :
                          /\ ~IsNaN(o[i])
                          /\ o[i].n * (mx - mn) = (data[c][i] - mn) * 100 * o[i].d
                          /\ FLe(Num(0), o[i]) /\ FLe(o[i], Num(100))
                    /\ \E i \in DOMAIN o : o[i] = Num(0)
                    /\ \E i \in DOMAIN o : o[i] = Num(100)

\* C8 witness: normal() returned for a sample that is not constant over the
\* current rows and whose minimum or maximum over them differs from that over the
\* rows of the constructed table.
C8_Witness ==
    /\ last.op = "normal"
    /\ \E c \in 1..NumSamples(data) :
          /\ data[c] # <<>>
          /\ ~IsConstant(data[c])
          /\ \/ MinOf(Range(data[c])) # MinOf(Range(df.data[c]))
             \/ MaxOf(Range(data[c])) # MaxOf(Range(df.data[c]))

\* C9: reshape of curve data computed from the current state emits
\* sampleCount * temperaturePointCount records, by sample in column order and by
\* temperature in input order within a sample; the intensities of one sample
\* name are that sample's sequence, and each record of the sample at column i
\* carries the label at position i of the assignment.
C9_ReshapeLayout ==
    last.op = "reshape" =>
        LET curve == Curve(last.arg[1], data)
            S == NumSamples(data)
            R == Len(temp)
        IN  /\ last.err = "none"
            /\ Len(last.out) = S * R
            /\ \A c \in 1..S : \A i \in 1..R :
                  last.out[(c - 1) * R + i] =
                      [Temperature |-> temp[i], Sample |-> SampleNames[c],
                       Intensity |-> curve[c][i], Cluster |-> cluster[c]]
            /\ \A c \in 1..S :
                  LET mine == SelectSeq(last.out,
                                        LAMBDA rec : rec.Sample = SampleNames[c])
                  IN  /\ Len(mine) = R
                      /\ \A i \in 1..R : mine[i].Intensity = curve[c][i]

\* C9 witness: reshape of the difference curves, with several rows on an axis that
\* is not ascending and different labels stored for the two samples.
C9_Witness ==
    /\ last.op = "reshape"
    /\ last.arg[1] = "diff"
    /\ Len(temp) >= 2
    /\ \E i \in 1..(Len(temp) - 1) : temp[i] > temp[i + 1]
    /\ cluster[1] # cluster[2]

\* C10: subset is not cumulative: every subset call leaves the rows of the
\* constructed table strictly inside its own range, whatever rows earlier calls
\* left, and no other call changes the axis, the series or the constructed table.
C10_Step ==
    /\ df' = df
    /\ last'.op = "subset" =>
          IsStrictFilter(temp', data', last'.arg[1], last'.arg[2])
    /\ last'.op # "subset" => (temp' = temp /\ data' = data)
C10_SubsetNotCumulative == [][C10_Step]_vars

\* C10 witness: a subset after which the object has more rows than before it: a
\* wider subset restored rows that a narrower one had dropped.
C10_Witness == last.op = "subset" /\ grew /\ Len(temp) < Len(df.temp)

====
